---- MODULE Spec2Model ----
(***************************************************************************)
(* Model of Corrade::TestSuite::Tester: the test-case registry, exec()'s   *)
(* run loop, the check primitives (verify / compare / compareWith / skip), *)
(* the expected-failure scope and the exit status.                         *)
(*                                                                         *)
(* Tester.h holds the declarations, the macros and the template bodies     *)
(* (compareWith, verify, addTests); the bodies of exec(), verifyInternal(),*)
(* skip(), registerTestCase() and ExpectedFailure live in Tester.cpp,      *)
(* which is not part of the sources: they are modelled from the documented *)
(* contract and from the output TesterTest.cpp expects of them.            *)
(***************************************************************************)
EXTENDS Integers, Sequences, FiniteSets, TLC

(* ---------------------------------------------------------------- bounds *)
MaxCases == 2
MaxStmts == 2
MaxScopes == 1
MaxArgs == 2

\* Largest registry whose ordinals are printed (two digits are needed).
MaxPadCases == 11

(* ------------------------------------------------------------- constants *)
NULL == "nullptr"
SkipMessages == {"This testcase is skipped.", "Skipped."}
ScopeMessages == {"The world is not mad yet."}

VARIABLES
    testCases,        \* Tester::_testCases: per case, TRUE iff registered with setup/teardown
    pc,               \* position of the program: idle, next, body, after, done
    usedTestCases,    \* ordinals selected by --only / --skip, in execution order
    idx,              \* position of the run loop in usedTestCases
    testCaseId,       \* Tester::_testCaseId
    testCaseName,     \* Tester::_testCaseName ("" until a check macro registers the case)
    checkCount,       \* Tester::_checkCount
    errorCount,       \* exec(): number of cases ended by Exception
    noCheckCount,     \* exec(): number of cases without any check
    expectedFailure,  \* Tester::_expectedFailure: NULL or the message of the active scope
    scopeDepth,       \* number of ExpectedFailure objects alive in the running case body
    stmts,            \* number of statements the case bodies have executed so far
    signal,           \* how the case body ended: none, Exception, SkipException
    out,              \* everything written to the log / error output, in order
    result            \* value returned by exec(), -1 while it has not returned

vars == <<testCases, pc, usedTestCases, idx, testCaseId, testCaseName, checkCount,
          errorCount, noCheckCount, expectedFailure, scopeDepth, stmts, signal,
          out, result>>

(* ------------------------------------------------------------ output ---- *)
\* One line (or line pair) of the report.  kind is the tag of the line; id the
\* ordinal printed in brackets (the case count for Starting, the error count
\* for Finished); msg the skip / scope message; detail the explanation.
Event(kind, id, msg, detail) ==
    [kind |-> kind, id |-> id, msg |-> msg, detail |-> detail,
     checks |-> 0, noChecks |-> 0, name |-> "", pad |-> <<>>]

\* Number of decimal digits of a positive number.
RECURSIVE DigitCount(_)
DigitCount(n) == IF n < 10 THEN 1 ELSE 1 + DigitCount(n \div 10)

Repeat(char, k) == [i \in 1..k |-> char]

\* Mutant: ordinals are printed without padding.
PaddingNone(number, max) == <<>>

\* Tester::padding(number, max): the characters printed in front of number to
\* give it as many digits as max.
Padding(number, max) == Repeat("0", DigitCount(max) - DigitCount(number))

\* A report line of a case: "[" padding(_testCaseId, _testCases.size())
\* _testCaseId "]" and the name of the case.
Named(event, name) ==
    [event EXCEPT !.name = name, !.pad = Padding(event.id, Len(testCases))]

\* The name printed for a case that called no check macro.
UnknownName == "<unknown>()"

\* Mutant: the clause about cases without checks is always printed.
SummaryClauseAlways(noChecks) == "test cases didn't contain any checks!"

\* Trailing clause of the summary line.
SummaryClause(noChecks) ==
    IF noChecks # 0 THEN "test cases didn't contain any checks!" ELSE ""

FinishedEvent(errors, checks, noChecks) ==
    [kind |-> "Finished", id |-> errors, msg |-> SummaryClause(noChecks), detail |-> "",
     checks |-> checks, noChecks |-> noChecks, name |-> "", pad |-> <<>>]

RECURSIVE Remove(_, _)
Remove(s, x) ==
    IF s = <<>> THEN <<>>
    ELSE IF Head(s) = x THEN Tail(s)
    ELSE <<Head(s)>> \o Remove(Tail(s), x)

RECURSIVE RemoveAll(_, _)
RemoveAll(s, xs) ==
    IF xs = <<>> THEN s ELSE RemoveAll(Remove(s, Head(xs)), Tail(xs))

AllOrdinals(n) == [i \in 1..n |-> i]

\* The elements of a set of ordinals in ascending order.
RECURSIVE AscendingOrder(_)
AscendingOrder(S) ==
    IF S = {} THEN <<>>
    ELSE LET least == CHOOSE x \in S : \A y \in S : x <= y
         IN <<least>> \o AscendingOrder(S \ {least})

Range(s) == {s[i] : i \in 1..Len(s)}

\* Mutant: the selection is put in registration order.
UsedTestCasesAscending(only, skip, n) ==
    AscendingOrder(Range(RemoveAll(IF only # <<>> THEN only ELSE AllOrdinals(n), skip)))

\* Mutant: --skip is ignored when --only is given.
UsedTestCasesSkipIgnored(only, skip, n) ==
    IF only # <<>> THEN only ELSE RemoveAll(AllOrdinals(n), skip)

\* --only keeps the listed ordinals in the order they are listed, --skip then
\* removes ordinals from that list.
UsedTestCases(only, skip, n) ==
    RemoveAll(IF only # <<>> THEN only ELSE AllOrdinals(n), skip)

\* Mutant: the counters themselves are returned.
ExitStatusCount(registrySize, errors, noChecks) ==
    IF registrySize = 0 THEN 2 ELSE errors + noChecks

\* Mutant: cases without checks are only warned about.
ExitStatusErrorsOnly(registrySize, errors, noChecks) ==
    IF registrySize = 0 THEN 2
    ELSE IF errors # 0 THEN 1
    ELSE 0

\* Mutant: an empty registry is not an error.
ExitStatusNoEmpty(registrySize, errors, noChecks) ==
    IF errors # 0 \/ noChecks # 0 THEN 1 ELSE 0

\* Return value of exec(): non-zero if there are no test cases, if any test
\* case fails or doesn't contain any checking macros, zero otherwise.
ExitStatus(registrySize, errors, noChecks) ==
    IF registrySize = 0 THEN 2
    ELSE IF errors # 0 \/ noChecks # 0 THEN 1
    ELSE 0

\* Mutant: the summary is printed for an empty registry too.
NoTestsOutputWithSummary ==
    <<Event("NoTests", 0, "", ""), FinishedEvent(0, 0, 0)>>

\* What exec() writes when nothing is registered.
NoTestsOutput == <<Event("NoTests", 0, "", "")>>

(* ------------------------------------------------------ check outcomes -- *)
\* Mutant: the comparator's result is read the wrong way round outside a scope.
CompareOutcomeInverted(active, equal) ==
    IF ~active THEN (IF equal THEN "FAIL" ELSE "pass")
    ELSE IF ~equal THEN "XFAIL"
    ELSE "XPASS"

\* Mutant: a failure under an active scope is not treated as expected.
CompareOutcomeNoXfail(active, equal) ==
    IF ~equal THEN "FAIL"
    ELSE IF active THEN "XPASS"
    ELSE "pass"

\* Mutant: a pass under an active scope goes unnoticed.
CompareOutcomeNoXpass(active, equal) ==
    IF equal THEN "pass"
    ELSE IF active THEN "XFAIL"
    ELSE "FAIL"

\* Tester::compareWith(): what one comparison does, given whether an
\* expected-failure scope is active and what the comparator returned.
CompareOutcome(active, equal) ==
    IF ~active THEN (IF equal THEN "pass" ELSE "FAIL")
    ELSE IF ~equal THEN "XFAIL"
    ELSE "XPASS"

\* Tester::verifyInternal(): the same policy for a truth value.
VerifyOutcome(active, value) ==
    IF ~active THEN (IF value THEN "pass" ELSE "FAIL")
    ELSE IF ~value THEN "XFAIL"
    ELSE "XPASS"

\* Mutant: an expected failure prints the explanation of the comparator.
CompareDetailOfComparator(outcome) ==
    CASE outcome = "XFAIL" -> "printErrorMessage"
      [] outcome = "FAIL"  -> "printErrorMessage"
      [] outcome = "XPASS" -> "are not expected to be equal."
      [] OTHER -> ""

\* Tester::compareWith(): what follows the head of the line. XFAIL and XPASS
\* print the two expressions and a fixed text, only FAIL asks the comparator.
CompareDetail(outcome) ==
    CASE outcome = "XFAIL" -> "are not equal."
      [] outcome = "FAIL"  -> "printErrorMessage"
      [] outcome = "XPASS" -> "are not expected to be equal."
      [] OTHER -> ""

VerifyDetail(outcome) ==
    CASE outcome = "XFAIL" -> "failed."
      [] outcome = "FAIL"  -> "failed."
      [] outcome = "XPASS" -> "was expected to fail."
      [] OTHER -> ""

\* _CORRADE_REGISTER_TEST_CASE(): the first macro of a case names the case
\* after the function it is called in (__func__).
RegisteredName(name, func) == IF name = "" THEN func ELSE name

(* ------------------------------------------------------------------ Init *)
Init ==
    /\ testCases = <<>>
    /\ pc = "idle"
    /\ usedTestCases = <<>>
    /\ idx = 0
    /\ testCaseId = 0
    /\ testCaseName = ""
    /\ checkCount = 0
    /\ errorCount = 0
    /\ noCheckCount = 0
    /\ expectedFailure = NULL
    /\ scopeDepth = 0
    /\ stmts = 0
    /\ signal = "none"
    /\ out = <<>>
    /\ result = -1

runVars == <<usedTestCases, idx, testCaseId, testCaseName, checkCount, errorCount,
             noCheckCount, expectedFailure, scopeDepth, stmts, signal, out, result>>

(* ---------------------------------------------------------- registration *)
\* Mutant: the new cases are put in front of the registered ones.
AddTestsInFront(n) ==
    /\ pc = "idle"
    /\ Len(testCases) + n <= MaxCases
    /\ testCases' = [i \in 1..n |-> FALSE] \o testCases
    /\ UNCHANGED <<pc, runVars>>

\* Tester::addTests(tests): appends the cases, none with setup / teardown.
AddTests(n) ==
    /\ pc = "idle"
    /\ Len(testCases) + n <= MaxCases
    /\ testCases' = testCases \o [i \in 1..n |-> FALSE]
    /\ UNCHANGED <<pc, runVars>>

\* addTests(tests, setup, teardown): appends the cases of one group.
AddTestsSetupTeardown(n) ==
    /\ pc = "idle"
    /\ Len(testCases) + n <= MaxCases
    /\ testCases' = testCases \o [i \in 1..n |-> TRUE]
    /\ UNCHANGED <<pc, runVars>>

(* ------------------------------------------------------------------ exec *)
RECURSIVE SeqsUpTo(_, _)
SeqsUpTo(S, k) ==
    IF k = 0 THEN {<<>>}
    ELSE LET shorter == SeqsUpTo(S, k - 1)
         IN shorter \cup {Append(s, x) : s \in shorter, x \in S}

NoDuplicates(s) == \A i, j \in 1..Len(s) : s[i] = s[j] => i = j

\* Arguments of --only / --skip: lists of registered ordinals (<<>>: option absent).
OrdinalArgs(n) == {s \in SeqsUpTo(1..n, MaxArgs) : NoDuplicates(s)}

\* Mutant: the first line announces the whole registry.
StartingCountRegistered(used, registered) == Len(registered)

\* "Starting <suite> with N test cases...": N counts the cases to run.
StartingCount(used, registered) == Len(used)

Exec(only, skip) ==
    /\ pc = "idle"
    /\ IF Len(testCases) = 0
       THEN /\ out' = out \o NoTestsOutput
            /\ result' = ExitStatus(0, 0, 0)
            /\ pc' = "done"
            /\ UNCHANGED <<usedTestCases, idx>>
       ELSE /\ usedTestCases' = UsedTestCases(only, skip, Len(testCases))
            /\ out' = Append(out, Event("Starting", StartingCount(usedTestCases', testCases), "", ""))
            /\ idx' = 1
            /\ pc' = "next"
            /\ UNCHANGED result
    /\ UNCHANGED <<testCases, testCaseId, testCaseName, checkCount, errorCount,
                   noCheckCount, expectedFailure, scopeDepth, stmts, signal>>

\* Head of the run loop: select the case, clear its name, run its setup.
BeginCase ==
    /\ pc = "next"
    /\ idx <= Len(usedTestCases)
    /\ testCaseId' = usedTestCases[idx]
    /\ testCaseName' = ""
    /\ out' = IF testCases[usedTestCases[idx]]
              THEN Append(out, Event("setup", usedTestCases[idx], "", ""))
              ELSE out
    /\ signal' = "none"
    /\ pc' = IF testCases[usedTestCases[idx]] THEN "setup" ELSE "body"
    /\ UNCHANGED <<testCases, usedTestCases, idx, checkCount, errorCount, noCheckCount,
                   expectedFailure, scopeDepth, stmts, result>>

(* ------------------------------------------------------------ case body *)
\* Mutant: the scope stays registered after its block was left.
ScopeAfterLeaveKept(current) == current

\* ~ExpectedFailure(): the Tester has no expected failure any more.
ScopeAfterLeave(current) == NULL

\* The function the program is in: the setup of the case or its body.
CurrentFunction == IF pc = "setup" THEN "setup" ELSE "case"

\* Mutant: only the checks that print a line are counted.
CheckCountAfterPrintedOnly(count, outcome) ==
    IF outcome = "pass" THEN count ELSE count + 1

\* ++_checkCount: every check is counted, before its outcome is known.
CheckCountAfter(count, outcome) == count + 1

\* What one check does to the state once its outcome is known.
CheckStep(outcome, detail) ==
    /\ testCaseName' = RegisteredName(testCaseName, CurrentFunction)
    /\ checkCount' = CheckCountAfter(checkCount, outcome)
    /\ stmts' = stmts + 1
    /\ CASE outcome = "pass" ->
              /\ UNCHANGED <<out, pc, signal, expectedFailure, scopeDepth>>
         [] outcome = "XFAIL" ->
              /\ out' = Append(out, Named(Event("XFAIL", testCaseId, expectedFailure, detail),
                                           testCaseName'))
              /\ UNCHANGED <<pc, signal, expectedFailure, scopeDepth>>
         [] OTHER ->
              \* FAIL or XPASS: print, throw Exception; unwinding destroys the scopes
              /\ out' = Append(out, Named(Event(outcome, testCaseId, "", detail),
                                           testCaseName'))
              /\ signal' = "Exception"
              /\ pc' = "after"
              /\ expectedFailure' = ScopeAfterLeave(expectedFailure)
              /\ scopeDepth' = 0
    /\ UNCHANGED <<testCases, usedTestCases, idx, testCaseId, errorCount, noCheckCount,
                   result>>

\* CORRADE_COMPARE / _AS / _WITH: registerTestCase(), then Tester::compareWith().
CompareWith(equal) ==
    /\ pc = "body"
    /\ stmts < MaxStmts
    /\ LET outcome == CompareOutcome(expectedFailure # NULL, equal)
       IN CheckStep(outcome, CompareDetail(outcome))

\* CORRADE_VERIFY: registerTestCase(), then Tester::verify().
Verify(value) ==
    /\ pc = "body"
    /\ stmts < MaxStmts
    /\ LET outcome == VerifyOutcome(expectedFailure # NULL, value)
       IN CheckStep(outcome, VerifyDetail(outcome))

\* CORRADE_SKIP: registerTestCase(), then Tester::skip(): print, throw SkipException.
Skip(message) ==
    /\ pc = "body"
    /\ stmts < MaxStmts
    /\ testCaseName' = RegisteredName(testCaseName, CurrentFunction)
    /\ out' = Append(out, Named(Event("SKIP", testCaseId, message, ""), testCaseName'))
    /\ signal' = "SkipException"
    /\ pc' = "after"
    /\ stmts' = stmts + 1
    /\ expectedFailure' = ScopeAfterLeave(expectedFailure)
    /\ scopeDepth' = 0
    /\ UNCHANGED <<testCases, usedTestCases, idx, testCaseId, checkCount, errorCount,
                   noCheckCount, result>>

\* A check macro called in the setup function of the case.
SetupVerify(value) ==
    /\ pc = "setup"
    /\ stmts < MaxStmts
    /\ LET outcome == VerifyOutcome(expectedFailure # NULL, value)
       IN CheckStep(outcome, VerifyDetail(outcome))

\* CORRADE_SKIP called in the setup function of the case.
SetupSkip(message) ==
    /\ pc = "setup"
    /\ stmts < MaxStmts
    /\ testCaseName' = RegisteredName(testCaseName, CurrentFunction)
    /\ out' = Append(out, Named(Event("SKIP", testCaseId, message, ""), testCaseName'))
    /\ signal' = "SkipException"
    /\ pc' = "after"
    /\ stmts' = stmts + 1
    /\ UNCHANGED <<testCases, usedTestCases, idx, testCaseId, checkCount, errorCount,
                   noCheckCount, expectedFailure, scopeDepth, result>>

\* The setup function returns: the case body runs next.
SetupReturn ==
    /\ pc = "setup"
    /\ pc' = "body"
    /\ UNCHANGED <<testCases, usedTestCases, idx, testCaseId, testCaseName, checkCount,
                   errorCount, noCheckCount, expectedFailure, scopeDepth, stmts, signal,
                   out, result>>

\* Mutant: the scope is registered whatever its condition.
ScopeAfterEnterAlways(current, message, enabled) == message

\* ExpectedFailure(instance, message, enabled): only an enabled scope becomes
\* the expected failure of the Tester.
ScopeAfterEnter(current, message, enabled) ==
    IF enabled THEN message ELSE current

\* CORRADE_EXPECT_FAIL / _IF: construct an ExpectedFailure in the current block.
ExpectFail(message, enabled) ==
    /\ pc = "body"
    /\ stmts < MaxStmts
    /\ scopeDepth < MaxScopes
    /\ scopeDepth' = scopeDepth + 1
    /\ expectedFailure' = ScopeAfterEnter(expectedFailure, message, enabled)
    /\ stmts' = stmts + 1
    /\ UNCHANGED <<testCases, pc, usedTestCases, idx, testCaseId, testCaseName,
                   checkCount, errorCount, noCheckCount, signal, out, result>>

\* End of the block holding the innermost ExpectedFailure: its destructor runs.
EndScope ==
    /\ pc = "body"
    /\ scopeDepth > 0
    /\ scopeDepth' = scopeDepth - 1
    /\ expectedFailure' = ScopeAfterLeave(expectedFailure)
    /\ UNCHANGED <<testCases, pc, usedTestCases, idx, testCaseId, testCaseName,
                   checkCount, errorCount, noCheckCount, stmts, signal, out, result>>

\* The case body returns; the scopes still alive are destroyed.
Return ==
    /\ pc = "body"
    /\ pc' = "after"
    /\ signal' = "none"
    /\ scopeDepth' = 0
    /\ expectedFailure' = ScopeAfterLeave(expectedFailure)
    /\ UNCHANGED <<testCases, usedTestCases, idx, testCaseId, testCaseName, checkCount,
                   errorCount, noCheckCount, stmts, out, result>>

(* ------------------------------------------------- end of a case, exec() *)
\* Mutant: the case is torn down before its OK line is printed.
CaseReportTeardownFirst(sig, name, id, hasTeardown) ==
    LET teardown == IF hasTeardown THEN <<Event("teardown", id, "", "")>> ELSE <<>>
    IN CASE sig = "Exception"     -> teardown
         [] sig = "SkipException" -> teardown
         [] name = ""             -> <<Named(Event("?", id, "", ""), UnknownName)>>
         [] OTHER                 -> teardown \o <<Named(Event("OK", id, "", ""), name)>>

\* Mutant: a raised signal ends the case without tearing it down.
CaseReportNoTeardownOnSignal(sig, name, id, hasTeardown) ==
    CASE sig = "Exception"     -> <<>>
      [] sig = "SkipException" -> <<>>
      [] name = ""             -> <<Named(Event("?", id, "", ""), UnknownName)>>
      [] OTHER                 -> <<Named(Event("OK", id, "", ""), name)>>
                                      \o (IF hasTeardown THEN <<Event("teardown", id, "", "")>>
                                                         ELSE <<>>)

\* Mutant: the handler of Exception falls through to the OK line.
CaseReportNoContinue(sig, name, id, hasTeardown) ==
    LET teardown == IF hasTeardown THEN <<Event("teardown", id, "", "")>> ELSE <<>>
    IN CASE sig = "SkipException" -> teardown
         [] name = ""             -> <<Named(Event("?", id, "", ""), UnknownName)>>
         [] OTHER                 -> <<Named(Event("OK", id, "", ""), name)>> \o teardown

\* What the run loop prints after the body of case id ended with signal sig.
CaseReport(sig, name, id, hasTeardown) ==
    LET teardown == IF hasTeardown THEN <<Event("teardown", id, "", "")>> ELSE <<>>
    IN CASE sig = "Exception"     -> teardown
         [] sig = "SkipException" -> teardown
         [] name = ""             -> <<Named(Event("?", id, "", ""), UnknownName)>>
         [] OTHER                 -> <<Named(Event("OK", id, "", ""), name)>> \o teardown

\* Mutant: the handler of Exception counts the case twice.
CountErrorTwice(errors, sig) == IF sig = "Exception" THEN errors + 2 ELSE errors

\* Mutant: one handler for both signals.
CountErrorAnySignal(errors, sig) == IF sig # "none" THEN errors + 1 ELSE errors

\* Error count after a case that ended with signal sig.
CountError(errors, sig) == IF sig = "Exception" THEN errors + 1 ELSE errors

\* Mutant: a skipped case is taken for a case without checks.
CountNoCheckSkipped(noChecks, sig, name) ==
    IF sig = "SkipException" \/ (sig = "none" /\ name = "") THEN noChecks + 1 ELSE noChecks

\* No-check count after a case that ended with signal sig and name name.
CountNoCheck(noChecks, sig, name) ==
    IF sig = "none" /\ name = "" THEN noChecks + 1 ELSE noChecks

\* Per-case boundary of the run loop: catch, count, report, tear down.
FinishCase ==
    /\ pc = "after"
    /\ errorCount' = CountError(errorCount, signal)
    /\ noCheckCount' = CountNoCheck(noCheckCount, signal, testCaseName)
    /\ out' = out \o CaseReport(signal, testCaseName, testCaseId, testCases[testCaseId])
    /\ idx' = idx + 1
    /\ pc' = "next"
    /\ UNCHANGED <<testCases, usedTestCases, testCaseId, testCaseName, checkCount,
                   expectedFailure, scopeDepth, stmts, signal, result>>

\* After the last case: the summary line and the return value.
Finish ==
    /\ pc = "next"
    /\ idx > Len(usedTestCases)
    /\ out' = Append(out, FinishedEvent(errorCount, checkCount, noCheckCount))
    /\ result' = ExitStatus(Len(testCases), errorCount, noCheckCount)
    /\ pc' = "done"
    /\ UNCHANGED <<testCases, usedTestCases, idx, testCaseId, testCaseName, checkCount,
                   errorCount, noCheckCount, expectedFailure, scopeDepth, stmts, signal>>

(* ------------------------------------------------------------------ Next *)
Register ==
    \E n \in 1..MaxCases : AddTests(n) \/ AddTestsSetupTeardown(n)

Start ==
    /\ pc = "idle"
    /\ \E only \in OrdinalArgs(Len(testCases)), skip \in OrdinalArgs(Len(testCases)) :
          Exec(only, skip)

Check ==
    \E b \in BOOLEAN : CompareWith(b) \/ Verify(b)

SkipCase ==
    \E m \in SkipMessages : Skip(m)

EnterScope ==
    \E m \in ScopeMessages, enabled \in BOOLEAN : ExpectFail(m, enabled)

Setup ==
    \/ \E b \in BOOLEAN : SetupVerify(b)
    \/ \E m \in SkipMessages : SetupSkip(m)
    \/ SetupReturn

Run ==
    BeginCase \/ Setup \/ Check \/ SkipCase \/ EnterScope \/ EndScope \/ Return
        \/ FinishCase \/ Finish

Next == Register \/ Start \/ Run

Spec == Init /\ [][Next]_vars

(* ------------------------------------------------ types of a comparison *)
\* Operand types: int, double, a struct A with implicit conversions from and
\* to int, const char* and std::string.
Types == {"int", "double", "A", "cstr", "string"}

NumericTypes == {"int", "double", "A"}

\* Values of each type.  Numbers are counted in halves: 6 is 3 and 7 is 3.5.
\* A const char* is an address and the text found there: the same text at
\* two addresses gives two pointers.
ValuesOf(type) ==
    CASE type = "int"    -> {6}
      [] type = "double" -> {6, 7}
      [] type = "A"      -> {6}
      [] type = "cstr"   -> {[address |-> 1, text |-> "hello"],
                             [address |-> 2, text |-> "hello"]}
      [] type = "string" -> {"hello", "meh"}

\* std::is_convertible<From, To>.
Convertible(From, To) ==
    \/ From = To
    \/ From \in NumericTypes /\ To \in NumericTypes
    \/ From = "cstr" /\ To = "string"

\* Whether std::common_type<Actual, Expected> names a type: A and a number
\* convert to each other, which makes their common type ambiguous.
HasStdCommonType(Actual, Expected) ==
    \/ Actual = Expected
    \/ {Actual, Expected} = {"int", "double"}
    \/ {Actual, Expected} = {"cstr", "string"}

\* std::common_type<Actual, Expected>::type.
StdCommonType(Actual, Expected) ==
    CASE Actual = Expected                     -> Expected
      [] {Actual, Expected} = {"int", "double"}  -> "double"
      [] {Actual, Expected} = {"cstr", "string"} -> "string"

\* Mutant: the common type is taken whenever there is one.
CommonTypeStdFirst(Actual, Expected) ==
    IF HasStdCommonType(Actual, Expected) THEN StdCommonType(Actual, Expected)
    ELSE Expected

\* Implementation::CommonType<Actual, Expected>::Type: the expected type if
\* the actual type converts to it, std::common_type otherwise.
CommonType(Actual, Expected) ==
    IF Convertible(Actual, Expected) THEN Expected
    ELSE StdCommonType(Actual, Expected)

\* The operand types CORRADE_COMPARE compiles for: those that have a
\* comparison type.
Comparable(Actual, Expected) ==
    Convertible(Actual, Expected) \/ HasStdCommonType(Actual, Expected)

\* Implicit conversion of a value of type From to the type To: a number loses
\* its half when it becomes an int, a const char* becomes the std::string of
\* its text.
Convert(value, From, To) ==
    CASE To \in {"int", "A"}               -> (value \div 2) * 2
      [] From = "cstr" /\ To = "string"    -> value.text
      [] OTHER                             -> value

\* ComparatorTraits<T>: the type operator() of Comparator<T> takes.
ParamType(T) == IF T = "StringLength" THEN "string" ELSE T

\* Comparator<T>::operator() on two values of its parameter type:
\* Comparator<StringLength> compares the lengths within epsilon, the other
\* comparators compare with ==, which for const char* compares the addresses.
ComparatorResult(T, epsilon, actualValue, expectedValue) ==
    CASE T = "StringLength" ->
            LET difference == Len(actualValue) - Len(expectedValue)
            IN (IF difference < 0 THEN 0 - difference ELSE difference) <= epsilon
      [] T = "cstr" -> actualValue.address = expectedValue.address
      [] OTHER      -> actualValue = expectedValue

\* The verdict of Comparator<T> on operands of the given types: compareWith
\* converts both to the parameter type of the comparator and calls it.
ComparatorVerdict(T, epsilon, Actual, actualValue, Expected, expectedValue) ==
    ComparatorResult(T, epsilon, Convert(actualValue, Actual, ParamType(T)),
                                 Convert(expectedValue, Expected, ParamType(T)))

\* What the line of a comparison says after the name of the case: the two
\* expressions, and on FAIL what Comparator<T>::printErrorMessage adds.
ComparatorDetail(T, epsilon, Actual, actualValue, Expected, expectedValue, outcome) ==
    CASE outcome = "pass" -> <<>>
      [] outcome = "FAIL" /\ T = "StringLength" ->
            <<<<Actual, actualValue>>, <<Expected, expectedValue>>, "with epsilon", epsilon>>
      [] outcome = "FAIL" ->
            <<<<Actual, actualValue>>, <<Expected, expectedValue>>, "actual is",
              Convert(actualValue, Actual, ParamType(T)), "but expected",
              Convert(expectedValue, Expected, ParamType(T))>>
      [] OTHER ->
            <<<<Actual, actualValue>>, <<Expected, expectedValue>>, CompareDetail(outcome)>>

\* Tester::compareWith(comparator, ...) on operands of the given types.
CompareWithComparator(T, epsilon, Actual, actualValue, Expected, expectedValue) ==
    /\ pc = "body"
    /\ stmts < MaxStmts
    /\ Convertible(Actual, ParamType(T))
    /\ Convertible(Expected, ParamType(T))
    /\ LET equal   == ComparatorVerdict(T, epsilon, Actual, actualValue,
                                        Expected, expectedValue)
           outcome == CompareOutcome(expectedFailure # NULL, equal)
       IN CheckStep(outcome, ComparatorDetail(T, epsilon, Actual, actualValue,
                                               Expected, expectedValue, outcome))

\* Mutant: the type given by the caller is replaced by the common type.
CompareAsCommonType(T, Actual, actualValue, Expected, expectedValue) ==
    /\ Convertible(Actual, ParamType(T))
    /\ Convertible(Expected, ParamType(T))
    /\ Comparable(Actual, Expected)
    /\ CompareWithComparator(CommonType(Actual, Expected), 0,
                             Actual, actualValue, Expected, expectedValue)

\* compareAs<T, U, V>: explicit type, compareWith(Comparator<T>(), ...).
CompareAs(T, Actual, actualValue, Expected, expectedValue) ==
    CompareWithComparator(T, 0, Actual, actualValue, Expected, expectedValue)

\* compareAs<template<class> class T, Actual, Expected>: explicit comparator
\* template, instantiated with CommonType<Actual, Expected>::Type; the
\* instance compares values of that type.
CompareAsTemplate(Actual, actualValue, Expected, expectedValue) ==
    /\ Comparable(Actual, Expected)
    /\ CompareAs(CommonType(Actual, Expected), Actual, actualValue, Expected, expectedValue)

\* compare<T> and compare<Actual, Expected>: no type given.
Compare(Actual, actualValue, Expected, expectedValue) ==
    /\ Comparable(Actual, Expected)
    /\ CompareAs(CommonType(Actual, Expected), Actual, actualValue, Expected, expectedValue)

\* Epsilons given to StringLength.
Epsilons == {0, 1, 2}

\* CORRADE_COMPARE_WITH(actual, expected, StringLength(epsilon)).
CompareWithInstance(epsilon, Actual, actualValue, Expected, expectedValue) ==
    CompareWithComparator("StringLength", epsilon, Actual, actualValue, Expected, expectedValue)

\* Types CORRADE_COMPARE_AS is given.
ExplicitTypes == {"int", "double", "string", "StringLength"}

\* One comparison macro with operands of known types.
TypedCheck ==
    \E Actual \in Types, Expected \in Types :
        \E actualValue \in ValuesOf(Actual), expectedValue \in ValuesOf(Expected) :
            \/ Compare(Actual, actualValue, Expected, expectedValue)
            \/ CompareAsTemplate(Actual, actualValue, Expected, expectedValue)
            \/ \E T \in ExplicitTypes :
                  CompareAs(T, Actual, actualValue, Expected, expectedValue)
            \/ \E epsilon \in Epsilons :
                  CompareWithInstance(epsilon, Actual, actualValue, Expected, expectedValue)

\* A suite of one case, started without options.
CompareInit ==
    /\ testCases = <<FALSE>>
    /\ pc = "next"
    /\ usedTestCases = AllOrdinals(Len(testCases))
    /\ idx = 1
    /\ testCaseId = 0
    /\ testCaseName = ""
    /\ checkCount = 0
    /\ errorCount = 0
    /\ noCheckCount = 0
    /\ expectedFailure = NULL
    /\ scopeDepth = 0
    /\ stmts = 0
    /\ signal = "none"
    /\ out = <<Event("Starting", Len(testCases), "", "")>>
    /\ result = -1

CompareNext == BeginCase \/ TypedCheck \/ Return \/ FinishCase \/ Finish

CompareSpec == CompareInit /\ [][CompareNext]_vars

(* ------------------------------------------- ordinals of large registries *)
\* A suite with up to MaxPadCases registered cases, started with a selection
\* of one or two of them.
PadInit ==
    /\ testCases \in {[i \in 1..n |-> FALSE] : n \in 1..MaxPadCases}
    /\ usedTestCases \in {s \in SeqsUpTo(1..Len(testCases), 2) : s # <<>> /\ NoDuplicates(s)}
    /\ pc = "pad"
    /\ idx = 1
    /\ testCaseId = 0
    /\ testCaseName = ""
    /\ checkCount = 0
    /\ errorCount = 0
    /\ noCheckCount = 0
    /\ expectedFailure = NULL
    /\ scopeDepth = 0
    /\ stmts = 0
    /\ signal = "none"
    /\ out = <<>>
    /\ result = -1

\* The next selected case passes its one check and its report line is printed.
PrintOrdinal ==
    /\ pc = "pad"
    /\ idx <= Len(usedTestCases)
    /\ testCaseId' = usedTestCases[idx]
    /\ testCaseName' = "case"
    /\ checkCount' = checkCount + 1
    /\ out' = Append(out, Named(Event("OK", usedTestCases[idx], "", ""), "case"))
    /\ idx' = idx + 1
    /\ UNCHANGED <<testCases, pc, usedTestCases, errorCount, noCheckCount,
                   expectedFailure, scopeDepth, stmts, signal, result>>

PadNext == PrintOrdinal

PadSpec == PadInit /\ [][PadNext]_vars

\* exec() is sequential code: once called it keeps running until it returns.
FairSpec == Spec /\ WF_vars(Run)

(* ================================================================ claims *)
Last(s) == s[Len(s)]

HasKind(k) == \E i \in 1..Len(out) : out[i].kind = k

\* Some executed case ended as a failure.
Failed == HasKind("FAIL") \/ HasKind("XPASS")

\* The lines that report how a case ended.
OutcomeKinds == {"OK", "FAIL", "XPASS", "SKIP", "?"}

\* The lines a case body prints.
BodyKinds == {"XFAIL", "FAIL", "XPASS", "SKIP"}

RECURSIVE OutcomeIds(_)
OutcomeIds(s) ==
    IF s = <<>> THEN <<>>
    ELSE IF Head(s).kind \in OutcomeKinds THEN <<Head(s).id>> \o OutcomeIds(Tail(s))
    ELSE OutcomeIds(Tail(s))

(* ---- C1 ---- *)
\* C1 as stated: exec() returns 2 exactly when the registry is empty; with a
\* non-empty registry it returns 1 whenever an executed case ended FAIL or
\* XPASS, and 0 when every selected case ran and none failed.
C1_AsStated ==
    pc = "done" =>
        /\ (result = 2 <=> Len(testCases) = 0)
        /\ (Len(testCases) > 0 /\ Failed => result = 1)
        /\ (Len(testCases) > 0 /\ ~Failed => result = 0)

\* C1 amended: exec() returns 2 exactly when the registry is empty; with a
\* non-empty registry it returns 1 whenever an executed case ended FAIL or
\* XPASS or made no check, and 0 when every selected case ran, none failed
\* and none was without checks.
C1_ExitStatus ==
    pc = "done" =>
        /\ (result = 2 <=> Len(testCases) = 0)
        /\ (Len(testCases) > 0 /\ (Failed \/ HasKind("?")) => result = 1)
        /\ (Len(testCases) > 0 /\ ~Failed /\ ~HasKind("?") => result = 0)

\* A filtered run in which a case failed has returned 1.
C1_Witness ==
    /\ pc = "done"
    /\ result = 1
    /\ Failed
    /\ 0 < Len(usedTestCases)
    /\ Len(usedTestCases) < Len(testCases)

(* ---- C2 ---- *)
\* C2: exec() on an empty registry writes the single line "No tests to run"
\* and nothing else (no Starting line, no per-case line, no summary), and
\* runs no setup, case body or teardown.
C2_EmptyRegistry ==
    (pc = "done" /\ Len(testCases) = 0) =>
        /\ Len(out) = 1
        /\ out[1].kind = "NoTests"
        /\ usedTestCases = <<>>
        /\ testCaseId = 0
        /\ stmts = 0
        /\ checkCount = 0

\* exec() returned on an empty registry.
C2_Witness ==
    pc = "done" /\ Len(testCases) = 0 /\ result = 2 /\ out # <<>>

(* ---- C3 ---- *)
\* C3 as stated: a run over a non-empty registry in which no case fails but
\* an executed case performs zero checks returns 0.
C3_AsStated ==
    (pc = "done" /\ Len(testCases) > 0 /\ ~Failed /\ HasKind("?")) => result = 0

\* C3 amended: a run over a non-empty registry in which no case fails but an
\* executed case performs zero checks returns 1: a case with zero checks by
\* itself makes the exit status non-zero.
C3_NoChecksExitStatus ==
    (pc = "done" /\ Len(testCases) > 0 /\ ~Failed /\ HasKind("?")) => result = 1

\* A finished run without failures in which a case made no check.
C3_Witness ==
    pc = "done" /\ Len(testCases) > 0 /\ ~Failed /\ HasKind("?") /\ HasKind("OK")

(* ---- C4 ---- *)
\* C4: exec() returns non-zero if there are no test cases, if any executed
\* case fails, or if any executed case contains no check; zero otherwise.
C4_NonZeroIff ==
    pc = "done" =>
        (result # 0 <=> (Len(testCases) = 0 \/ Failed \/ HasKind("?")))

\* A finished run that returned zero after executing and skipping cases.
C4_Witness ==
    pc = "done" /\ result = 0 /\ HasKind("OK") /\ HasKind("SKIP")

(* ---- C5 ---- *)
\* A verify of false or a compare that is not equal, outside any scope.
NoScopeFalseCheck ==
    expectedFailure = NULL /\ (Verify(FALSE) \/ CompareWith(FALSE))

\* The step appends exactly one line of the given kind for the running case.
Prints(kind) ==
    /\ Len(out') = Len(out) + 1
    /\ Last(out').kind = kind
    /\ Last(out').id = testCaseId

\* The per-case handler of Exception: the case counts as one error, no check
\* of it runs any more, and the loop goes on to the next case.
ExceptionHandled ==
    /\ errorCount' = errorCount + 1
    /\ checkCount' = checkCount
    /\ pc' = "next"
    /\ \A i \in (Len(out) + 1)..Len(out') : out'[i].kind \notin BodyKinds

\* C5: with no expected-failure scope active, a false verify or a not-equal
\* compare reports FAIL and raises the case-fatal signal, so that no later
\* statement of the case body executes, and the failure count grows by
\* exactly one.
C5_FailAborts ==
    /\ [][NoScopeFalseCheck =>
            (Prints("FAIL") /\ pc' = "after" /\ signal' = "Exception"
                /\ checkCount' = checkCount + 1)]_vars
    /\ [][(pc = "after" /\ signal = "Exception" /\ Last(out).kind = "FAIL")
            => ExceptionHandled]_vars

\* A case has just been counted as failed after a FAIL.
C5_Witness ==
    pc = "next" /\ errorCount = 1 /\ out # <<>> /\ Last(out).kind = "FAIL"

(* ---- C6 ---- *)
\* A verify of false or a compare that is not equal, under an active scope.
ScopeFalseCheck ==
    expectedFailure # NULL /\ (Verify(FALSE) \/ CompareWith(FALSE))

\* C6: a check that evaluates false / not-equal under an active scope
\* reports XFAIL with the scope's message, leaves the case running and the
\* failure count unchanged; a case that returns after such expected failures
\* is reported OK and is not counted as failed.
C6_ExpectedFailureContinues ==
    /\ [][ScopeFalseCheck =>
            (/\ Prints("XFAIL")
             /\ Last(out').msg = expectedFailure
             /\ pc' = "body"
             /\ signal' = "none"
             /\ expectedFailure' = expectedFailure
             /\ errorCount' = errorCount
             /\ checkCount' = checkCount + 1)]_vars
    /\ [][(pc = "after" /\ signal = "none" /\ out # <<>> /\ Last(out).kind = "XFAIL")
            => (/\ errorCount' = errorCount
                /\ Len(out') > Len(out)
                /\ out'[Len(out) + 1].kind = "OK"
                /\ out'[Len(out) + 1].id = testCaseId)]_vars

\* A case was reported OK right after an expected failure, with no error counted.
C6_Witness ==
    /\ errorCount = 0
    /\ \E i \in 1..(Len(out) - 1) :
          out[i].kind = "XFAIL" /\ out[i + 1].kind = "OK" /\ out[i + 1].id = out[i].id

(* ---- C7 ---- *)
\* A verify of true or a compare that is equal, under an active scope.
ScopeTrueCheck ==
    expectedFailure # NULL /\ (Verify(TRUE) \/ CompareWith(TRUE))

\* C7: a check that evaluates true / equal under an active scope reports
\* XPASS and raises the case-fatal signal, so the rest of the case does not
\* execute, and the case is counted as a failure.
C7_UnexpectedPassAborts ==
    /\ [][ScopeTrueCheck =>
            (Prints("XPASS") /\ pc' = "after" /\ signal' = "Exception"
                /\ checkCount' = checkCount + 1)]_vars
    /\ [][(pc = "after" /\ signal = "Exception" /\ Last(out).kind = "XPASS")
            => ExceptionHandled]_vars

\* A case has just been counted as failed after an XPASS.
C7_Witness ==
    pc = "next" /\ errorCount = 1 /\ out # <<>> /\ Last(out).kind = "XPASS"

(* ---- C8 ---- *)
\* Every case that has ended so far passed or was skipped.
OnlyOkOrSkip ==
    \A i \in 1..Len(out) : out[i].kind \in OutcomeKinds => out[i].kind \in {"OK", "SKIP"}

\* C8: skip(message) ends the case where it is called, the case is reported
\* as SKIP with that message, and neither the failure count nor the exit
\* status is affected: no counter changes, and a run whose cases all passed
\* or were skipped returns 0.
C8_SkipIsNotAnError ==
    /\ [][\A m \in SkipMessages :
            Skip(m) => (/\ Prints("SKIP")
                        /\ Last(out').msg = m
                        /\ pc' = "after"
                        /\ signal' = "SkipException"
                        /\ checkCount' = checkCount
                        /\ errorCount' = errorCount)]_vars
    /\ [][(pc = "after" /\ signal = "SkipException")
            => (/\ errorCount' = errorCount
                /\ noCheckCount' = noCheckCount
                /\ checkCount' = checkCount
                /\ pc' = "next"
                /\ \A i \in (Len(out) + 1)..Len(out') :
                      out'[i].kind \notin (BodyKinds \cup OutcomeKinds))]_vars
    /\ []((pc = "done" /\ Len(testCases) > 0 /\ OnlyOkOrSkip) => result = 0)

\* A finished run in which a case was skipped and nothing was counted.
C8_Witness ==
    /\ pc = "done"
    /\ \E i \in 1..Len(out) : out[i].kind = "SKIP" /\ out[i].msg = "Skipped."
    /\ errorCount = 0
    /\ noCheckCount = 0
    /\ result = 0

(* ---- C9 ---- *)
\* C9: a case-fatal or skip signal is caught at the boundary of its case and
\* never escapes the run: once started on a non-empty registry, exec()
\* eventually returns; when it has, every selected case was executed and
\* reported exactly once, in order, the summary is the last line, and an
\* exit status was returned.
C9_SignalsAreIsolated ==
    /\ (pc = "next") ~> (pc = "done")
    /\ []((pc = "done" /\ Len(testCases) > 0) =>
            (/\ Last(out).kind = "Finished"
             /\ result \in {0, 1}
             /\ OutcomeIds(out) = usedTestCases))

\* A finished run in which a case ran to OK after an earlier case was aborted.
C9_Witness ==
    /\ pc = "done"
    /\ Last(out).kind = "Finished"
    /\ \E i, j \in 1..Len(out) :
          /\ i < j
          /\ out[i].kind \in {"FAIL", "XPASS", "SKIP"}
          /\ out[j].kind = "OK"

(* ---- C10 ---- *)
Indices(kind, id) == {i \in 1..Len(out) : out[i].kind = kind /\ out[i].id = id}

BodyIndices(id) == {i \in 1..Len(out) : out[i].kind \in BodyKinds /\ out[i].id = id}

\* C10: for every executed case of a group registered with setup and
\* teardown, setup ran exactly once before the case body and teardown
\* exactly once after it, whatever the outcome; for a case registered
\* without them neither ran.
C10_SetupTeardownPaired ==
    pc \in {"next", "done"} =>
        \A p \in 1..(idx - 1) :
            LET id == usedTestCases[p]
                S == Indices("setup", id)
                T == Indices("teardown", id)
            IN IF testCases[id]
               THEN /\ Cardinality(S) = 1
                    /\ Cardinality(T) = 1
                    /\ \A i \in S, j \in T :
                          i < j /\ \A b \in BodyIndices(id) : i < b /\ b < j
               ELSE S = {} /\ T = {}

\* ---------------------------------------------------------------------------
\* C11. A case-fatal or skip signal raised in the setup function of a case is
\* caught by the run loop like one raised in the body: the body is not run,
\* the teardown of that case is still printed, the loop goes on with the next
\* selected case, and at the end every selected case has exactly one outcome
\* line, in the order of the selection.
C11_SetupSignalIsolated ==
    /\ [][(pc = "setup" /\ signal' # "none") =>
              (pc' = "after" /\ testCaseId' = testCaseId /\ idx' = idx)]_vars
    /\ [][(pc = "after" /\ signal # "none" /\ testCases[testCaseId]) =>
              /\ Len(out') = Len(out) + 1
              /\ Last(out').kind = "teardown"
              /\ Last(out').id = testCaseId
              /\ pc' = "next"
              /\ idx' = idx + 1]_vars
    /\ []((pc = "done" /\ Len(testCases) > 0) => OutcomeIds(out) = usedTestCases)

\* A finished run in which the setup of a case failed or skipped, the case was
\* torn down right after, and a later case ended as OK.
C11_Witness ==
    /\ pc = "done"
    /\ \E i \in 1..Len(out) :
          /\ i + 3 <= Len(out)
          /\ out[i].kind = "setup"
          /\ out[i + 1].kind \in {"FAIL", "SKIP"}
          /\ out[i + 1].name = "setup"
          /\ out[i + 2].kind = "teardown"
          /\ out[i + 2].id = out[i].id
          /\ out[i + 3].kind = "OK"
          /\ out[i + 3].id # out[i].id

\* ---------------------------------------------------------------------------
\* The run loop executes the selection as exec() built it: at the end of a run
\* the outcome lines are those of the selected ordinals, in the order of the
\* selection.
SelectionExecuted ==
    (pc = "done" /\ Len(testCases) > 0) => OutcomeIds(out) = usedTestCases

\* C12 as stated: with --only and no --skip, the listed ordinals are executed
\* in ascending (registration) order whatever the order of the argument.
C12_AsStated ==
    /\ [][(pc = "idle" /\ pc' = "next") =>
              \A only \in OrdinalArgs(Len(testCases)) :
                  (only # <<>> /\ Exec(only, <<>>)) =>
                      usedTestCases' = AscendingOrder(Range(only))]_vars
    /\ []SelectionExecuted

\* C12. With --only and no --skip, exactly the listed ordinals are executed,
\* in the order in which the argument lists them: --only "2 1" runs case 2
\* before case 1.
C12_OnlyInArgumentOrder ==
    /\ [][(pc = "idle" /\ pc' = "next") =>
              \A only \in OrdinalArgs(Len(testCases)) :
                  (only # <<>> /\ Exec(only, <<>>)) => usedTestCases' = only]_vars
    /\ []SelectionExecuted

\* A finished run of --only "2 1": the outcome of case 2 is printed before the
\* outcome of case 1.
C12_Witness ==
    /\ pc = "done"
    /\ usedTestCases = <<2, 1>>
    /\ OutcomeIds(out) = <<2, 1>>

\* ---------------------------------------------------------------------------
\* Lines that belong to one case.
CaseKinds == {"setup", "teardown"} \cup BodyKinds \cup OutcomeKinds

\* C13. The executed cases are the ordinals of --only (all registered ordinals
\* when --only is absent) without the ordinals of --skip, each once; --skip
\* adds nothing.  A case that is not selected prints no line (no setup, body,
\* teardown or outcome line carries its ordinal) and the counters change only
\* while a selected case is the current one.
C13_SelectionIsOnlyMinusSkip ==
    /\ [][(pc = "idle" /\ pc' = "next") =>
              \A only \in OrdinalArgs(Len(testCases)), skip \in OrdinalArgs(Len(testCases)) :
                  Exec(only, skip) =>
                      /\ Range(usedTestCases') =
                            (IF only = <<>> THEN 1..Len(testCases) ELSE Range(only))
                                \ Range(skip)
                      /\ NoDuplicates(usedTestCases')]_vars
    /\ [](\A i \in 1..Len(out) :
              out[i].kind \in CaseKinds => out[i].id \in Range(usedTestCases))
    /\ [][(checkCount' # checkCount \/ errorCount' # errorCount
              \/ noCheckCount' # noCheckCount \/ testCaseName' # testCaseName) =>
                (testCaseId' \in Range(usedTestCases) /\ pc \in {"next", "setup", "body", "after"})]_vars
    /\ []SelectionExecuted

\* A finished run over two registered cases in which case 1 was excluded and
\* case 2 executed: there is an outcome line for case 2 and no line for case 1.
C13_Witness ==
    /\ pc = "done"
    /\ Len(testCases) = 2
    /\ usedTestCases = <<2>>
    /\ \E i \in 1..Len(out) : out[i].kind \in OutcomeKinds /\ out[i].id = 2
    /\ \A i \in 1..Len(out) : out[i].kind \in CaseKinds => out[i].id # 1

\* ---------------------------------------------------------------------------
\* Number of lines of the given kinds in the output.
CountKinds(kinds) == Cardinality({i \in 1..Len(out) : out[i].kind \in kinds})

\* C14. A case whose body returns without having called a check macro is
\* reported on a "?" line under the name <unknown>(), and is counted among the
\* cases without checks, not among the errors.  The summary line of a run
\* gives the number E of such cases and carries the trailing clause about
\* them exactly when E > 0; its error count is the number of FAIL and XPASS
\* lines only.
C14_NoCheckCaseIsUnknown ==
    /\ [][(pc = "after" /\ signal = "none" /\ testCaseName = "") =>
              /\ Len(out') = Len(out) + 1
              /\ Last(out').kind = "?"
              /\ Last(out').id = testCaseId
              /\ Last(out').name = UnknownName
              /\ noCheckCount' = noCheckCount + 1
              /\ errorCount' = errorCount]_vars
    /\ [](\A i \in 1..Len(out) : out[i].kind = "?" <=> out[i].name = UnknownName)
    /\ []((pc = "done" /\ Len(testCases) > 0) =>
              /\ Last(out).kind = "Finished"
              /\ Last(out).noChecks = CountKinds({"?"})
              /\ Last(out).id = CountKinds({"FAIL", "XPASS"})
              /\ (Last(out).msg # "" <=> CountKinds({"?"}) > 0))

\* A finished run with one case without checks and one OK case: the summary
\* carries the clause, counts one case without checks and no error.
C14_Witness ==
    /\ pc = "done"
    /\ CountKinds({"?"}) = 1
    /\ CountKinds({"OK"}) = 1
    /\ Last(out).kind = "Finished"
    /\ Last(out).noChecks = 1
    /\ Last(out).msg # ""
    /\ Last(out).id = 0

\* ---------------------------------------------------------------------------
\* A step that executes one verify or compare call, in the body or in setup.
CheckCall == \E b \in BOOLEAN : Verify(b) \/ CompareWith(b) \/ SetupVerify(b)

\* Each check call adds one to the check count whatever its outcome, skip
\* leaves the count alone, and nothing else changes it.
CountsEveryCheck ==
    /\ [][CheckCall => checkCount' = checkCount + 1]_vars
    /\ [][(\E m \in SkipMessages : Skip(m) \/ SetupSkip(m)) => checkCount' = checkCount]_vars
    /\ [][checkCount' # checkCount => CheckCall]_vars

\* The run loop prints the OK line of the current case and counts no check
\* and no error of its own.
EndsOk ==
    /\ Len(out') > Len(out)
    /\ out'[Len(out) + 1].kind = "OK"
    /\ out'[Len(out) + 1].id = testCaseId
    /\ checkCount' = checkCount
    /\ errorCount' = errorCount

\* C15 as stated: the check count grows by one per executed check and is left
\* alone by skip, and every case that returns with no signal raised ends as OK.
C15_AsStated ==
    /\ CountsEveryCheck
    /\ [][(pc = "after" /\ signal = "none") => EndsOk]_vars

\* C15. The check count grows by exactly one per executed verify or compare
\* call whatever its outcome (pass, FAIL, XFAIL, XPASS), skip does not change
\* it and nothing else does; a case that returns with no signal raised after
\* at least one check ends as OK, its checks being the only additions to the
\* count.
C15_CheckCount ==
    /\ CountsEveryCheck
    /\ [][(pc = "after" /\ signal = "none" /\ testCaseName # "") => EndsOk]_vars

\* A finished run of one case with two passing checks: it ended as OK and the
\* summary counts two checks.
C15_Witness ==
    /\ pc = "done"
    /\ usedTestCases = <<1>>
    /\ CountKinds({"OK"}) = 1
    /\ checkCount = 2
    /\ Last(out).checks = 2

\* ---------------------------------------------------------------------------
\* C16. Entering an expected-failure scope whose condition is false changes
\* nothing but the nesting of blocks: the expected failure of the Tester stays
\* what it was and nothing is printed or counted.  While such a scope is alive
\* and no expected failure is registered, a true check continues silently and
\* a false check prints FAIL and aborts the case, which the run loop counts as
\* one error.
C16_DisabledScopeIsAbsent ==
    /\ [][\A m \in ScopeMessages :
              ExpectFail(m, FALSE) =>
                  /\ expectedFailure' = expectedFailure
                  /\ out' = out
                  /\ pc' = pc
                  /\ checkCount' = checkCount
                  /\ errorCount' = errorCount]_vars
    /\ [][(scopeDepth > 0 /\ expectedFailure = NULL /\ (Verify(TRUE) \/ CompareWith(TRUE))) =>
              (out' = out /\ pc' = "body" /\ signal' = "none")]_vars
    /\ [][(scopeDepth > 0 /\ expectedFailure = NULL /\ (Verify(FALSE) \/ CompareWith(FALSE))) =>
              (Prints("FAIL") /\ signal' = "Exception" /\ pc' = "after")]_vars
    /\ [][(pc = "after" /\ signal = "Exception") => ExceptionHandled]_vars

\* The body of the only selected case has entered a disabled scope and a true
\* check has run in it: nothing was printed for the case and the body goes on.
C16_Witness ==
    /\ pc = "body"
    /\ usedTestCases = <<1>>
    /\ scopeDepth = 1
    /\ expectedFailure = NULL
    /\ stmts = 2
    /\ checkCount = 1
    /\ Last(out).kind = "Starting"

\* ---------------------------------------------------------------------------
\* C17. The ordinal of a case is its 1-based position in the registry: a call
\* of addTests appends its cases after those registered so far and changes no
\* earlier entry; a run without options selects the ordinals 1..n in that
\* order; and every line printed for a case carries the registry position of
\* that case whatever the selection: the ordinal on a line is a selected
\* ordinal, a setup or teardown line carries the ordinal of a case registered
\* with setup and teardown, and a case registered without them has no such
\* line.
C17_OrdinalsByRegistration ==
    /\ [][\A n \in 1..MaxCases :
              (AddTests(n) \/ AddTestsSetupTeardown(n)) =>
                  /\ Len(testCases') = Len(testCases) + n
                  /\ \A i \in 1..Len(testCases) : testCases'[i] = testCases[i]
                  /\ \A i \in (Len(testCases) + 1)..Len(testCases') :
                        testCases'[i] = AddTestsSetupTeardown(n)]_vars
    /\ [][(Len(testCases) > 0 /\ Exec(<<>>, <<>>)) =>
              usedTestCases' = [i \in 1..Len(testCases) |-> i]]_vars
    /\ [](\A i \in 1..Len(out) :
              out[i].kind \in CaseKinds =>
                  /\ out[i].id \in Range(usedTestCases)
                  /\ out[i].id \in 1..Len(testCases)
                  /\ (out[i].kind \in {"setup", "teardown"} => testCases[out[i].id])
                  /\ (testCases[out[i].id] => \E j \in 1..i :
                          out[j].kind = "setup" /\ out[j].id = out[i].id))
    /\ []SelectionExecuted

\* A finished run of --only "2" over a case registered by a first call of
\* addTests and a case registered with setup and teardown by a second call:
\* the lines of the executed case carry the ordinal 2.
C17_Witness ==
    /\ pc = "done"
    /\ testCases = <<FALSE, TRUE>>
    /\ usedTestCases = <<2>>
    /\ \E i, j \in 1..Len(out) :
          /\ out[i].kind = "setup" /\ out[i].id = 2
          /\ out[j].kind \in OutcomeKinds /\ out[j].id = 2
    /\ \A i \in 1..Len(out) : out[i].kind \in CaseKinds => out[i].id = 2

\* ---------------------------------------------------------------------------
\* Report lines: the lines that carry the ordinal and the name of a case.
ReportKinds == BodyKinds \cup OutcomeKinds

\* The highest selected ordinal.
MaxSelected == CHOOSE x \in Range(usedTestCases) : \A y \in Range(usedTestCases) : y <= x

\* C18 as stated: the ordinal on a report line is preceded by space characters
\* that bring it to the number of digits of the highest selected ordinal.
C18_AsStated ==
    \A i \in 1..Len(out) :
        out[i].kind \in ReportKinds =>
            out[i].pad = Repeat(" ", DigitCount(MaxSelected) - DigitCount(out[i].id))

\* C18. The ordinal on a report line is preceded by "0" characters that bring
\* it to the number of digits of the number of registered cases, so that all
\* the ordinals printed in a run have the same width.
C18_ZeroPadded ==
    \A i \in 1..Len(out) :
        out[i].kind \in ReportKinds =>
            /\ out[i].pad = Repeat("0", DigitCount(Len(testCases)) - DigitCount(out[i].id))
            /\ Len(out[i].pad) + DigitCount(out[i].id) = DigitCount(Len(testCases))

\* Ten cases are registered and only case 3 is selected: its line is printed
\* with the ordinal 03.
C18_Witness ==
    /\ Len(testCases) = 10
    /\ usedTestCases = <<3>>
    /\ Len(out) = 1
    /\ out[1].kind = "OK"
    /\ out[1].id = 3
    /\ out[1].pad = <<"0">>

\* ---------------------------------------------------------------------------
\* A step that executes one check in the body of a case.
BodyCheckStep == pc = "body" /\ checkCount' = checkCount + 1

\* C19. CORRADE_COMPARE on operands of two types, with no comparator and no
\* type given, compares under the expected type whenever the actual type
\* converts to it and under std::common_type of the two otherwise: the step
\* is the step of a comparison as that type, and it is there for every pair
\* of operand types that converts or has a common type.
C19_ComparisonType ==
    /\ [][BodyCheckStep =>
              \A Actual \in Types, Expected \in Types :
                  \A actualValue \in ValuesOf(Actual), expectedValue \in ValuesOf(Expected) :
                      Compare(Actual, actualValue, Expected, expectedValue) =>
                          CompareAs(IF Convertible(Actual, Expected) THEN Expected
                                    ELSE StdCommonType(Actual, Expected),
                                    Actual, actualValue, Expected, expectedValue)]_vars
    /\ []((pc = "body" /\ stmts < MaxStmts) =>
              \A Actual \in Types, Expected \in Types :
                  \A actualValue \in ValuesOf(Actual), expectedValue \in ValuesOf(Expected) :
                      (Convertible(Actual, Expected) \/ HasStdCommonType(Actual, Expected)) =>
                          ENABLED Compare(Actual, actualValue, Expected, expectedValue))

\* The int 3 was compared with the double 3.5 and the FAIL line gives the
\* values as doubles, 3 and 3.5: as ints they would have been equal.
C19_Witness ==
    \E i \in 1..Len(out) :
        /\ out[i].kind = "FAIL"
        /\ out[i].detail = <<<<"int", 6>>, <<"double", 7>>, "actual is", 6, "but expected", 7>>

\* ---------------------------------------------------------------------------
\* The types that hold the same values as the given type.
SameValues(type) == IF type \in NumericTypes THEN {"int", "double"} ELSE {type}

\* An explicit type or comparator instance is used as given: the check passes
\* silently exactly when that comparator accepts the operands.
ExplicitUsedVerbatim(Actual, actualValue, Expected, expectedValue) ==
    /\ \A T \in ExplicitTypes :
          CompareAs(T, Actual, actualValue, Expected, expectedValue) =>
              (out' = out <=> ComparatorVerdict(T, 0, Actual, actualValue,
                                                Expected, expectedValue))
    /\ \A epsilon \in Epsilons :
          CompareWithInstance(epsilon, Actual, actualValue, Expected, expectedValue) =>
              (out' = out <=> ComparatorVerdict("StringLength", epsilon, Actual, actualValue,
                                                Expected, expectedValue))

\* C20 as stated: whatever the caller gives to compareAs or compareWith, a
\* type, a comparator template or a comparator instance, the types of the
\* operands play no part: the same operand values under other operand types
\* give the same verdict.
C20_AsStated ==
    [][BodyCheckStep =>
          \A Actual \in Types, Expected \in Types :
              \A actualValue \in ValuesOf(Actual), expectedValue \in ValuesOf(Expected) :
                  /\ ExplicitUsedVerbatim(Actual, actualValue, Expected, expectedValue)
                  /\ CompareAsTemplate(Actual, actualValue, Expected, expectedValue) =>
                        \A Actual2 \in SameValues(Actual), Expected2 \in SameValues(Expected) :
                            (/\ actualValue \in ValuesOf(Actual2)
                             /\ expectedValue \in ValuesOf(Expected2)) =>
                                (out' = out <=>
                                    ComparatorVerdict(CommonType(Actual2, Expected2), 0,
                                                      Actual2, actualValue,
                                                      Expected2, expectedValue))]_vars

\* C20. A type given to compareAs and a comparator instance given to
\* compareWith are used as given, whatever the types of the operands.  A
\* comparator template given to compareAs is instantiated with the type the
\* automatic search finds for the operands: the expected type if the actual
\* type converts to it, std::common_type otherwise.
C20_ExplicitComparator ==
    [][BodyCheckStep =>
          \A Actual \in Types, Expected \in Types :
              \A actualValue \in ValuesOf(Actual), expectedValue \in ValuesOf(Expected) :
                  /\ ExplicitUsedVerbatim(Actual, actualValue, Expected, expectedValue)
                  /\ CompareAsTemplate(Actual, actualValue, Expected, expectedValue) =>
                        (out' = out <=>
                            ComparatorVerdict(IF Convertible(Actual, Expected) THEN Expected
                                              ELSE StdCommonType(Actual, Expected),
                                              0, Actual, actualValue,
                                              Expected, expectedValue))]_vars

\* The double 3.5 was compared with the int 3 as doubles, the type the caller
\* gave: the FAIL line gives the values 3.5 and 3, which are equal as ints,
\* the type the automatic search finds for these operands.
C20_Witness ==
    \E i \in 1..Len(out) :
        /\ out[i].kind = "FAIL"
        /\ out[i].detail = <<<<"double", 7>>, <<"int", 6>>, "actual is", 7, "but expected", 6>>

\* ---------------------------------------------------------------------------
\* C21. When the body of a case registered with setup and teardown returns
\* without having called a check macro, the run loop prints the teardown line
\* of that case, once, as it does for any other executed case of the group.
C21_TeardownAfterEmptyCase ==
    [][(pc = "after" /\ signal = "none" /\ testCaseName = "" /\ testCases[testCaseId]) =>
          Cardinality({i \in (Len(out) + 1)..Len(out') :
                          out'[i].kind = "teardown" /\ out'[i].id = testCaseId}) = 1]_vars

\* ---------------------------------------------------------------------------
\* Positions of the outcome line of a case in the output.
OutcomeIndices(id) == {i \in 1..Len(out) : out[i].kind \in OutcomeKinds /\ out[i].id = id}

\* The selected cases with setup and teardown that the run loop is done with.
FinishedGroupCases ==
    IF pc \in {"next", "done"}
    THEN {usedTestCases[p] : p \in {q \in 1..(idx - 1) : testCases[usedTestCases[q]]}}
    ELSE {}

\* C22 as stated: the outcome line of a case with setup and teardown is
\* printed only after the teardown of the case has run.
C22_AsStated ==
    \A id \in FinishedGroupCases :
        \A o \in OutcomeIndices(id) : \E t \in Indices("teardown", id) : t < o

\* C22. A case with setup and teardown passes through setup, body, report and
\* teardown in that order: its setup line comes first, its outcome line is
\* printed before the teardown runs (FAIL, XPASS and SKIP by the step that
\* raises the signal, OK and the no-checks line when the body has returned),
\* and the teardown line, when there is one, is the last line of the case.
C22_ReportBeforeTeardown ==
    /\ [](\A id \in FinishedGroupCases :
              /\ Cardinality(OutcomeIndices(id)) = 1
              /\ Cardinality(Indices("setup", id)) = 1
              /\ \A o \in OutcomeIndices(id) :
                    /\ \A u \in Indices("setup", id) : u < o
                    /\ \A t \in Indices("teardown", id) : o < t
              /\ \A t \in Indices("teardown", id), b \in BodyIndices(id) : b < t)
    /\ [][(pc \in {"setup", "body"} /\ signal' # "none") =>
              (Len(out') = Len(out) + 1 /\ Last(out').kind \in {"FAIL", "XPASS", "SKIP"}
                  /\ Last(out').id = testCaseId)]_vars
    /\ [][(pc = "after" /\ signal = "none") =>
              (Len(out') > Len(out) /\ out'[Len(out) + 1].kind \in {"OK", "?"}
                  /\ out'[Len(out) + 1].id = testCaseId)]_vars

\* A finished run in which a case was set up, reported as OK and then torn
\* down, its three lines in that order.
C22_Witness ==
    /\ pc = "done"
    /\ \E i \in 1..Len(out) :
          /\ i + 2 <= Len(out)
          /\ out[i].kind = "setup"
          /\ out[i + 1].kind = "OK"
          /\ out[i + 1].id = out[i].id
          /\ out[i + 2].kind = "teardown"
          /\ out[i + 2].id = out[i].id

\* ---------------------------------------------------------------------------
\* The lines the step prints.
NewLines == {i \in (Len(out) + 1)..Len(out') : TRUE}

\* C23. An enabled expected-failure scope is the active one from the step
\* that enters it, through the checks made in its block, until its block is
\* left; when a block holding a scope is left, by its end, by the return of
\* the body or by a raised signal, no scope is active; a check made while no
\* scope is active prints neither XFAIL nor XPASS; and outside the body of a
\* case, so at the start of every case, no scope is active or alive.
C23_ScopeActiveInsideRegion ==
    /\ [](pc # "body" => (expectedFailure = NULL /\ scopeDepth = 0))
    /\ [](scopeDepth = 0 => expectedFailure = NULL)
    /\ [][(pc = "body" /\ scopeDepth' > scopeDepth) =>
              \A m \in ScopeMessages : ExpectFail(m, TRUE) => expectedFailure' = m]_vars
    /\ [][(pc = "body" /\ pc' = "body" /\ scopeDepth' = scopeDepth) =>
              expectedFailure' = expectedFailure]_vars
    /\ [][(pc = "body" /\ scopeDepth' < scopeDepth) => expectedFailure' = NULL]_vars
    /\ [][(pc = "body" /\ expectedFailure = NULL) =>
              \A i \in NewLines : out'[i].kind \notin {"XFAIL", "XPASS"}]_vars
    /\ [][(pc = "body" /\ expectedFailure # NULL /\ checkCount' # checkCount) =>
              \E i \in NewLines : out'[i].kind \in {"XFAIL", "XPASS"}]_vars

\* The body of the second executed case is running with no scope active,
\* after the first case was aborted by an unexpected pass inside its scope.
C23_Witness ==
    /\ pc = "body"
    /\ idx = 2
    /\ expectedFailure = NULL
    /\ scopeDepth = 0
    /\ \E i \in 1..Len(out) : out[i].kind = "XPASS" /\ out[i].id = usedTestCases[1]

\* ---------------------------------------------------------------------------
\* C25 as stated: the XFAIL line of a comparison ends with the explanation
\* of the comparator, the detail a FAIL line of the same comparison has.
C25_AsStated ==
    [][(pc = "body" /\ expectedFailure # NULL /\ CompareWith(FALSE)) =>
          (/\ Last(out').kind = "XFAIL"
           /\ Last(out').msg = expectedFailure
           /\ Last(out').detail = CompareDetail("FAIL"))]_vars

\* C25. Under an active scope a comparison of unequal operands prints one
\* XFAIL line made of the message of the scope followed by the fixed text
\* "<actual> and <expected> are not equal."; the explanation of the
\* comparator, which a FAIL line carries, is not printed, and the case goes on.
C25_XfailFixedText ==
    [][(pc = "body" /\ expectedFailure # NULL /\ CompareWith(FALSE)) =>
          (/\ Len(out') = Len(out) + 1
           /\ Last(out').kind = "XFAIL"
           /\ Last(out').id = testCaseId
           /\ Last(out').msg = expectedFailure
           /\ Last(out').detail = "are not equal."
           /\ Last(out').detail # CompareDetail("FAIL")
           /\ pc' = "body"
           /\ signal' = "none"
           /\ expectedFailure' = expectedFailure)]_vars

\* A comparison has just printed its XFAIL line under the scope that is
\* still active.
C25_Witness ==
    /\ pc = "body"
    /\ expectedFailure # NULL
    /\ Len(out) > 0
    /\ Last(out).kind = "XFAIL"
    /\ Last(out).msg = expectedFailure
    /\ Last(out).detail = "are not equal."

\* ---------------------------------------------------------------------------
\* The executed cases that have a FAIL or an XPASS line.
FailedCases ==
    {id \in Range(usedTestCases) :
        \E i \in 1..Len(out) : out[i].kind \in {"FAIL", "XPASS"} /\ out[i].id = id}

\* C26. The number of errors in the summary is the number of executed cases
\* that ended with a FAIL or an XPASS line: a case has at most one such line,
\* the handler of the case adds one for it and nothing for a case that ended
\* otherwise (XFAIL lines only, SKIP, no checks, OK), no other step changes
\* the count, and the count exceeds neither the number of cases executed so
\* far nor the number of checks.
C26_ErrorsAreFailedCases ==
    /\ []((pc = "done" /\ Len(testCases) > 0) =>
             (/\ Last(out).kind = "Finished"
              /\ Last(out).id = Cardinality(FailedCases)
              /\ Last(out).id = CountKinds({"FAIL", "XPASS"})
              /\ Last(out).id <= Len(usedTestCases)
              /\ Last(out).id <= Last(out).checks))
    /\ [](pc \in {"next", "setup", "body", "after"} =>
             (errorCount <= idx - 1 /\ errorCount <= checkCount))
    /\ [][pc = "after" =>
             errorCount' = errorCount +
                 (IF \E i \in BodyIndices(testCaseId) : out[i].kind \in {"FAIL", "XPASS"}
                  THEN 1 ELSE 0)]_vars
    /\ [][pc # "after" => errorCount' = errorCount]_vars

\* A finished run of two cases: one ended with XPASS and is the one error of
\* the summary, the other made no check and is not counted as an error.
C26_Witness ==
    /\ pc = "done"
    /\ Len(usedTestCases) = 2
    /\ HasKind("XPASS")
    /\ HasKind("?")
    /\ Last(out).kind = "Finished"
    /\ Last(out).id = 1

\* ---------------------------------------------------------------------------
\* C27. CORRADE_SKIP called in a case body that has made no check prints the
\* SKIP line under the name of the case, not under "<unknown>()", and the
\* handler of the case then prints no no-checks line and leaves the count of
\* cases without checks as it is, so the summary does not count the case.
C27_SkippedCaseIsNamed ==
    /\ [][(pc = "body" /\ testCaseName = "") =>
             \A m \in SkipMessages :
                 Skip(m) => (/\ Len(out') = Len(out) + 1
                             /\ Last(out').kind = "SKIP"
                             /\ Last(out').id = testCaseId
                             /\ Last(out').msg = m
                             /\ Last(out').name = "case"
                             /\ Last(out').name # UnknownName
                             /\ testCaseName' = "case"
                             /\ noCheckCount' = noCheckCount)]_vars
    /\ [][(pc = "after" /\ signal = "SkipException") =>
             (/\ noCheckCount' = noCheckCount
              /\ \A i \in NewLines : out'[i].kind # "?")]_vars
    /\ []((pc = "done" /\ Len(testCases) > 0) =>
             Last(out).noChecks = CountKinds({"?"}))
    /\ [](\A i \in 1..Len(out) :
             out[i].kind = "SKIP" => Cardinality(Indices("?", out[i].id)) = 0)

\* A finished run whose only case called CORRADE_SKIP before any check: its
\* SKIP line carries its name and the summary counts no case without checks.
C27_Witness ==
    /\ pc = "done"
    /\ Len(usedTestCases) = 1
    /\ checkCount = 0
    /\ \E i \in 1..Len(out) : out[i].kind = "SKIP" /\ out[i].name = "case"
    /\ Last(out).kind = "Finished"
    /\ Last(out).noChecks = 0

\* ---------------------------------------------------------------------------
\* The executed cases: one outcome line each.
ExecutedCount == CountKinds(OutcomeKinds)

\* C28. The number in the first line of a run is the number of cases selected
\* by --only and --skip, the size of the registry when neither is given, and
\* when the run has finished exactly that many cases have been executed.
C28_StartingCountIsSelection ==
    /\ [][(pc = "idle" /\ pc' = "next") =>
             \A only \in OrdinalArgs(Len(testCases)), skip \in OrdinalArgs(Len(testCases)) :
                 Exec(only, skip) =>
                     (/\ Len(out') = 1
                      /\ out'[1].kind = "Starting"
                      /\ out'[1].id = Len(UsedTestCases(only, skip, Len(testCases)))
                      /\ out'[1].id = Len(usedTestCases')
                      /\ ((only = <<>> /\ skip = <<>>) => out'[1].id = Len(testCases)))]_vars
    /\ []((pc = "done" /\ Len(testCases) > 0) =>
             (/\ out[1].kind = "Starting"
              /\ ExecutedCount = out[1].id
              /\ Cardinality(Range(OutcomeIds(out))) = out[1].id
              /\ idx - 1 = out[1].id))
    /\ [](pc \in {"next", "setup", "body", "after"} => ExecutedCount <= out[1].id)

\* A finished run over a registry of two cases of which the filter selected
\* one: the first line announces one case and one case was executed.
C28_Witness ==
    /\ pc = "done"
    /\ Len(testCases) = 2
    /\ out[1].kind = "Starting"
    /\ out[1].id = 1
    /\ ExecutedCount = 1

====
